---- MODULE Spec2Model ----
(***************************************************************************)
(* Model of the two MICrONS analysis notebooks:                            *)
(*   Circuit/microns_population_connectivity/analysis_notebook.ipynb       *)
(*   Circuit/microns_con_mat_spines/analysis_notebook.ipynb                *)
(*                                                                         *)
(* Coordinates and resolutions are exact fixed-point integers (one unit =  *)
(* one um); quotients are kept as num/den pairs, so no rounding error of   *)
(* floating point arithmetic is modelled.                                  *)
(***************************************************************************)
EXTENDS Integers, Sequences, FiniteSets, TLC

\* ---------------------------------------------------------------------
\* Bounds of the model
\* ---------------------------------------------------------------------
MaxRows == 3
MaxMinCount == 3

\* Offsets a table cell can hold and slider positions of "Resolution"
Coords == {-10, 10}
Resolutions == {5, 15, 20}
Axes == {"X", "Y", "Z"}

VARIABLES
    pc,             \* position in the cell / call sequence
    df_in,          \* the table handed to digitized
    resolutions,    \* pandas.Series axis -> resolution
    dgtz_deltas,    \* result of digitized
    axes_to_use,    \* the two axes handed to spatial_asymmetry
    min_count,      \* the min_count handed to spatial_asymmetry
    I,              \* result of spatial_asymmetry
    M,              \* the MICrONS ConnectivityMatrix: vertices and edges
    C,              \* the control ConnectivityMatrix
    model_matrix,   \* <<i, j>> -> <<scale, exponent>>
    block_assignment,
    fit_i, fit_j,   \* the indices i, j of the model-fitting loop
    fit_calls,      \* <<i, j>> -> number of model fits made for the pair
    dd2_args,       \* the arguments handed to run_DD2_block
    frames,         \* the DataFrame objects, by the name bound to them
    call,           \* the widget callback that ran last, with its arguments
    nrn_id,         \* the neuron whose afferent synapses are loaded
    circ_edges,     \* edge population -> the afferent edges of nrn_id
    synapses,       \* what synapses_from_all_edge_populations returned
    node_pop,       \* node id -> the properties of the neuron
    circ_aff,       \* node id -> edge population -> its afferent edges
    nrn_props,      \* the table of the neurons with a morphology
    sliders,        \* the IntSlider objects of the two neuron widgets
    loop_k,         \* position of the counting loop in nrn_props.index
    wgt,            \* global name of a control -> the widget object bound to it
    objs,           \* widget object -> its value and the callbacks observing it
    invoked         \* the callbacks the last change of a control invoked

fnVars == <<df_in, resolutions, dgtz_deltas, axes_to_use, min_count, I>>
nbVars == <<M, C, model_matrix, block_assignment, fit_i, fit_j, fit_calls, dd2_args>>
nrnVars == <<node_pop, circ_aff, nrn_props, sliders, loop_k>>
ctlVars == <<wgt, objs, invoked>>
spVars == <<nrn_id, circ_edges, synapses, nrnVars, ctlVars>>
vars == <<pc, fnVars, nbVars, frames, call, spVars>>

\* ---------------------------------------------------------------------
\* Values
\* ---------------------------------------------------------------------
\* A float cell of a Series of quotients: NaN, or num/den (den = 0 is +-inf)
NaN == [nan |-> TRUE, num |-> 0, den |-> 1]
Quot(n, d) == [nan |-> FALSE, num |-> n, den |-> d]

Abs(x) == IF x < 0 THEN -x ELSE x

\* A table (DataFrame) is a function from row labels to rows; a row is a
\* function from column names to values.
EmptyFrame == <<>>
Row3(x, y, z) == ("X" :> x) @@ ("Y" :> y) @@ ("Z" :> z)
Rank(row) == row["X"] * 10000 + row["Y"] * 100 + row["Z"]

\* numpy.round of x / r for r > 0: nearest integer, ties to the even one
npRoundFloor(x, r) == x \div r
npRound(x, r) ==
    LET q == x \div r
        rem == x % r
    IN  IF 2 * rem < r THEN q
        ELSE IF 2 * rem > r THEN q + 1
        ELSE IF q % 2 = 0 THEN q ELSE q + 1

\* (df_in[resolutions.index] / resolutions).round() * resolutions
digitized(df, res) ==
    [i \in DOMAIN df |->
        [c \in DOMAIN res |-> npRound(df[i][c], res[c]) * res[c]]]

\* ---------------------------------------------------------------------
\* spatial_asymmetry
\* ---------------------------------------------------------------------
BinOf(row, axes) == <<row[axes[1]], row[axes[2]]>>

\* df.groupby(axes)[axes[0]].count(): one entry per bin that holds a row
groupby_count(df, axes) ==
    LET bins == {BinOf(df[i], axes) : i \in DOMAIN df}
    IN  [b \in bins |-> Cardinality({i \in DOMAIN df : BinOf(df[i], axes) = b})]

\* -df_in
negatedSame(df) == df
negated(df) == [i \in DOMAIN df |-> [c \in DOMAIN df[i] |-> 0 - df[i][c]]]

\* A.subtract(B, fill_value=0) and A.add(B, fill_value=0)
Get0(S, b) == IF b \in DOMAIN S THEN S[b] ELSE 0
subtract_fill(A, B) == [b \in DOMAIN A \cup DOMAIN B |-> Get0(A, b) - Get0(B, b)]
add_fill(A, B) == [b \in DOMAIN A \cup DOMAIN B |-> Get0(A, b) + Get0(B, b)]

\* abDiff / abSum (0/0 is NaN, x/0 is +-inf)
divideSwapped(abDiff, abSum) ==
    [b \in DOMAIN abDiff |->
        IF abDiff[b] = 0 /\ abSum[b] = 0 THEN NaN
        ELSE IF abDiff[b] < 0 THEN Quot(0 - abSum[b], 0 - abDiff[b])
        ELSE Quot(abSum[b], abDiff[b])]
divide(abDiff, abSum) ==
    [b \in DOMAIN abDiff |->
        IF abDiff[b] = 0 /\ abSum[b] = 0 THEN NaN ELSE Quot(abDiff[b], abSum[b])]

\* I[abSum < min_count] = numpy.nan
set_nan_belowLeq(Iq, abSum, mc) ==
    [b \in DOMAIN Iq |-> IF abSum[b] <= mc THEN NaN ELSE Iq[b]]
set_nan_below(Iq, abSum, mc) ==
    [b \in DOMAIN Iq |-> IF abSum[b] < mc THEN NaN ELSE Iq[b]]

spatial_asymmetry(df, axes, mc) ==
    LET A == groupby_count(df, axes)
        B == groupby_count(negated(df), axes)
        abDiff == subtract_fill(A, B)
        abSum == add_fill(A, B)
    IN  set_nan_below(divide(abDiff, abSum), abSum, mc)

\* ---------------------------------------------------------------------
\* Specification SpecFn: digitized and spatial_asymmetry on arbitrary input
\* ---------------------------------------------------------------------
Rows3 == {Row3(x, y, z) : x \in Coords, y \in Coords, z \in Coords}
\* the functions do not depend on the order of the rows: sorted tables only
Tables ==
    UNION {{t \in [1..n -> Rows3] :
               \A k \in 1..(n - 1) : Rank(t[k]) <= Rank(t[k + 1])} : n \in 0..MaxRows}
ResolutionSeries ==
    UNION {[ix -> Resolutions] : ix \in {{"X", "Z"}, {"X", "Y", "Z"}}}

\* the variables of the cells that are not run
IdleFn ==
    /\ df_in = EmptyFrame
    /\ resolutions = <<>>
    /\ dgtz_deltas = EmptyFrame
    /\ axes_to_use = <<"X", "Z">>
    /\ min_count = 0
    /\ I = <<>>
NoMatrix == [vertices |-> <<>>, edges |-> <<>>]
IdleNb ==
    /\ M = NoMatrix
    /\ C = NoMatrix
    /\ model_matrix = <<>>
    /\ block_assignment = <<>>
    /\ fit_i = 0
    /\ fit_j = 0
    /\ fit_calls = <<>>
    /\ dd2_args = <<>>

NoCall == [func |-> "none"]
NoTable == [index |-> <<>>, cols |-> <<>>]
IdleNrn ==
    /\ node_pop = <<>>
    /\ circ_aff = <<>>
    /\ nrn_props = NoTable
    /\ sliders = <<>>
    /\ loop_k = 0
IdleCtl ==
    /\ wgt = <<>>
    /\ objs = <<>>
    /\ invoked = {}
IdleSp ==
    /\ nrn_id = 0
    /\ circ_edges = <<>>
    /\ synapses = <<>>
    /\ IdleNrn
    /\ IdleCtl

InitFn ==
    /\ pc = "input"
    /\ IdleNb
    /\ frames = <<>>
    /\ call = NoCall
    /\ IdleSp
    /\ df_in \in Tables
    /\ resolutions \in ResolutionSeries
    /\ dgtz_deltas = EmptyFrame
    /\ axes_to_use = <<"X", "Z">>
    /\ min_count = 0
    /\ I = <<>>

\* dgtz_deltas = digitized(deltas, resolutions)
CallDigitized ==
    /\ pc = "input"
    /\ dgtz_deltas' = digitized(df_in, resolutions)
    /\ pc' = "digitized"
    /\ UNCHANGED <<df_in, resolutions, axes_to_use, min_count, I, nbVars, frames, call, spVars>>

\* I = spatial_asymmetry(dgtz_deltas, axes, min_count)
CallSpatialAsymmetry ==
    /\ pc = "digitized"
    /\ \E a \in DOMAIN resolutions, b \in DOMAIN resolutions, mc \in 0..MaxMinCount :
        /\ axes_to_use' = <<a, b>>
        /\ min_count' = mc
        /\ I' = spatial_asymmetry(dgtz_deltas, <<a, b>>, mc)
    /\ pc' = "asymmetry"
    /\ UNCHANGED <<df_in, resolutions, dgtz_deltas, nbVars, frames, call, spVars>>

NextFn == CallDigitized \/ CallSpatialAsymmetry
SpecFn == InitFn /\ [][NextFn]_vars

\* Forward and reverse counts of a bin, counted directly on the rows
Forward(df, axes, b) == Cardinality({i \in DOMAIN df : BinOf(df[i], axes) = b})
Reverse(df, axes, b) ==
    Cardinality({i \in DOMAIN df : BinOf(df[i], axes) = <<0 - b[1], 0 - b[2]>>})

\* C1: every non-NaN value returned by spatial_asymmetry lies in [-1, 1]
C1_AsymmetryInRange ==
    pc = "asymmetry" =>
        \A b \in DOMAIN I :
            ~I[b].nan => /\ I[b].den > 0
                         /\ 0 - I[b].den <= I[b].num
                         /\ I[b].num <= I[b].den
\* a value strictly between 0 and 1 has been returned
C1_Witness ==
    /\ pc = "asymmetry"
    /\ \E b \in DOMAIN I : ~I[b].nan /\ 0 < I[b].num /\ I[b].num < I[b].den

\* C2: an unmasked bin holds (A - B) / (A + B), A the rows in the bin and B
\* the rows in the negated bin; 1 iff B = 0, -1 iff A = 0, 0 iff A = B
C2_NormalizedDifference ==
    pc = "asymmetry" =>
        \A b \in DOMAIN I :
            LET A == Forward(dgtz_deltas, axes_to_use, b)
                B == Reverse(dgtz_deltas, axes_to_use, b)
            IN  ~I[b].nan =>
                    /\ I[b].den > 0
                    /\ I[b].num * (A + B) = (A - B) * I[b].den
                    /\ (I[b].num = I[b].den) <=> (B = 0)
                    /\ (I[b].num = 0 - I[b].den) <=> (A = 0)
                    /\ (I[b].num = 0) <=> (A = B)
\* unmasked bins with value 1, with value -1 and with value 0 in one result
C2_Witness ==
    /\ pc = "asymmetry"
    /\ \E b1, b2, b3 \in DOMAIN I :
        /\ ~I[b1].nan /\ I[b1].num = I[b1].den
        /\ ~I[b2].nan /\ I[b2].num = 0 - I[b2].den
        /\ ~I[b3].nan /\ I[b3].num = 0

\* C3: a bin of the result is NaN exactly when forward + reverse count is
\* below min_count
C3_MaskedBelowMinCount ==
    pc = "asymmetry" =>
        \A b \in DOMAIN I :
            I[b].nan <=>
                (Forward(dgtz_deltas, axes_to_use, b)
                    + Reverse(dgtz_deltas, axes_to_use, b) < min_count)
\* one bin sits exactly at min_count and is kept, another one is masked
C3_Witness ==
    /\ pc = "asymmetry"
    /\ min_count > 0
    /\ \E b1, b2 \in DOMAIN I :
        /\ ~I[b1].nan
        /\ Forward(dgtz_deltas, axes_to_use, b1)
              + Reverse(dgtz_deltas, axes_to_use, b1) = min_count
        /\ I[b2].nan

\* C4: digitized keeps the rows, keeps exactly the columns of resolutions,
\* and every value is a multiple of the resolution at most half a
\* resolution away from the input
C4_DigitizedBins ==
    pc # "input" =>
        /\ DOMAIN dgtz_deltas = DOMAIN df_in
        /\ \A i \in DOMAIN dgtz_deltas :
            /\ DOMAIN dgtz_deltas[i] = DOMAIN resolutions
            /\ \A c \in DOMAIN resolutions :
                /\ dgtz_deltas[i][c] % resolutions[c] = 0
                /\ 2 * Abs(dgtz_deltas[i][c] - df_in[i][c]) <= resolutions[c]
\* a column was dropped, one value moved up and one value sat on a tie
C4_Witness ==
    /\ pc = "digitized"
    /\ DOMAIN resolutions # Axes
    /\ \E i \in DOMAIN df_in, c \in DOMAIN resolutions :
            dgtz_deltas[i][c] > df_in[i][c]
    /\ \E i \in DOMAIN df_in, c \in DOMAIN resolutions :
            2 * Abs(dgtz_deltas[i][c] - df_in[i][c]) = resolutions[c]

\* ---------------------------------------------------------------------
\* Population connectivity notebook: cells d278872a, 1a12c4a5, 6b5edf78
\* ---------------------------------------------------------------------
NumNeurons == 2

layers == <<2, 3, 4, 5, 6>>
Blocks == 0..(Len(layers) - 1)

\* Excitatory neurons after the rotation: layer, int_layer and rotated X, Y, Z
Somata ==
    { [layer |-> "1", int_layer |-> 1, X |-> -10, Y |-> 10, Z |-> -10],
      [layer |-> "2", int_layer |-> 2, X |-> -10, Y |-> 20, Z |-> 10],
      [layer |-> "3", int_layer |-> 3, X |-> 10, Y |-> 30, Z |-> -10],
      [layer |-> "6", int_layer |-> 6, X |-> 10, Y |-> 60, Z |-> 10] }

\* edges <<row, col>> = <<pre, post>>, kept in row-major order
Pairs(n) == {p \in (1..n) \X (1..n) : p[1] # p[2]}
PairKey(p) == p[1] * 100 + p[2]
RECURSIVE SortedEdges(_)
SortedEdges(S) ==
    IF S = {} THEN <<>>
    ELSE LET m == CHOOSE p \in S : \A q \in S : PairKey(p) <= PairKey(q)
         IN  <<m>> \o SortedEdges(S \ {m})
EdgeLists(n) == {SortedEdges(S) : S \in SUBSET Pairs(n)}
Matrices ==
    {[vertices |-> v, edges |-> e] :
        v \in [1..NumNeurons -> Somata], e \in EdgeLists(NumNeurons)}

\* len(M)
lenEdges(m) == Len(m.edges)
len(m) == Len(m.vertices)

\* M.index("int_layer").eq(l).gids
gids_eq(m, l) == {v \in DOMAIN m.vertices : m.vertices[v].int_layer = l}
\* M.submatrix(m_src.gids, sub_gids_post=m_tgt.gids)
submatrix(m, pre, post) ==
    {m.edges[e] : e \in {k \in DOMAIN m.edges :
                            m.edges[k][1] \in pre /\ m.edges[k][2] \in post}}

\* connalysis.modelling.conn_prob_2nd_order_pathway_model: the fit is opaque,
\* each fitted parameter is identified by what it was fitted on
conn_prob_2nd_order_pathway_model(mat, src, tgt) ==
    [exp_model_scale |-> [param |-> "scale", mat |-> mat, pre |-> src, post |-> tgt],
     exp_model_exponent |-> [param |-> "exponent", mat |-> mat, pre |-> src, post |-> tgt]]

\* numpy.zeros((len(layers), len(layers), 2))
Zero == [param |-> "zero", mat |-> {}, pre |-> {}, post |-> {}]
zeros == [p \in Blocks \X Blocks |-> <<Zero, Zero>>]

\* layers.index(_x)
index(seq, x) == (CHOOSE k \in 1..Len(seq) : seq[k] = x) - 1
InLayers(m) == \A v \in DOMAIN m.vertices :
                   \E k \in 1..Len(layers) : layers[k] = m.vertices[v].int_layer

\* model_matrix[i, j, 0] = scale; model_matrix[i, j, 1] = exponent
store_fitTransposed(mm, a, b, mdl) ==
    [mm EXCEPT ![<<b, a>>] = <<mdl.exp_model_scale, mdl.exp_model_exponent>>]
store_fit(mm, a, b, mdl) ==
    [mm EXCEPT ![<<a, b>>] = <<mdl.exp_model_scale, mdl.exp_model_exponent>>]

\* the arguments of connalysis.randomization.run_DD2_block
run_DD2_block_argsEdges(m, mm, ba) ==
    [n |-> lenEdges(m), model_matrix |-> mm, block_assignment |-> ba,
     coords |-> [v \in DOMAIN m.vertices |->
                    <<m.vertices[v].X, m.vertices[v].Y, m.vertices[v].Z>>],
     threads |-> 8]
run_DD2_block_args(m, mm, ba) ==
    [n |-> len(m), model_matrix |-> mm, block_assignment |-> ba,
     coords |-> [v \in DOMAIN m.vertices |->
                    <<m.vertices[v].X, m.vertices[v].Y, m.vertices[v].Z>>],
     threads |-> 8]

\* conntility.ConnectivityMatrix(ctrl, vertex_properties=...)
ConnectivityMatrix(ctrl, vertex_properties) ==
    [vertices |-> vertex_properties, edges |-> ctrl]

\* M.edge_associated_vertex_properties(prop): per connection the value of
\* the pre-synaptic ("row") and of the post-synaptic ("col") neuron
edge_associated_vertex_properties(m, prop) ==
    [e \in DOMAIN m.edges |->
        [row |-> m.vertices[m.edges[e][1]][prop],
         col |-> m.vertices[m.edges[e][2]][prop]]]

\* edge_x["col"] - edge_x["row"]
col_minus_rowReversed(edge_p) == [e \in DOMAIN edge_p |-> edge_p[e].row - edge_p[e].col]
col_minus_row(edge_p) == [e \in DOMAIN edge_p |-> edge_p[e].col - edge_p[e].row]

build_edge_delta_dataframe(m) ==
    LET dx == col_minus_row(edge_associated_vertex_properties(m, "X"))
        dy == col_minus_row(edge_associated_vertex_properties(m, "Y"))
        dz == col_minus_row(edge_associated_vertex_properties(m, "Z"))
        edge_pw == edge_associated_vertex_properties(m, "layer")
    IN  [e \in DOMAIN m.edges |->
            ("X" :> dx[e]) @@ ("Y" :> dy[e]) @@ ("Z" :> dz[e])
            @@ ("source_layer" :> edge_pw[e].row)
            @@ ("target_layer" :> edge_pw[e].col)]

\* df_absolute_locations (float cells, kept as quotients) and pandas.concat([deltas, ...], axis=1)
absolute_locations(m) ==
    LET ex == edge_associated_vertex_properties(m, "X")
        ey == edge_associated_vertex_properties(m, "Y")
        ez == edge_associated_vertex_properties(m, "Z")
    IN  [e \in DOMAIN m.edges |->
            ("src_X" :> Quot(ex[e].row, 1)) @@ ("tgt_X" :> Quot(ex[e].col, 1))
            @@ ("src_Y" :> Quot(ey[e].row, 1)) @@ ("tgt_Y" :> Quot(ey[e].col, 1))
            @@ ("src_Z" :> Quot(ez[e].row, 1)) @@ ("tgt_Z" :> Quot(ez[e].col, 1))]
concat_columns(a, b) == [e \in DOMAIN a |-> a[e] @@ b[e]]

Init ==
    /\ pc = "cell_d278872a"
    /\ IdleFn
    /\ M \in Matrices
    /\ C = NoMatrix
    /\ model_matrix = <<>>
    /\ block_assignment = <<>>
    /\ fit_i = 0
    /\ fit_j = 0
    /\ fit_calls = <<>>
    /\ dd2_args = <<>>
    /\ frames = <<>>
    /\ call = NoCall
    /\ IdleSp

\* model_matrix = zeros; block_assignment = ...layers.index(_x)...
BeginFit ==
    /\ pc = "cell_d278872a"
    /\ InLayers(M)
    /\ model_matrix' = zeros
    /\ block_assignment' =
          [v \in DOMAIN M.vertices |-> index(layers, M.vertices[v].int_layer)]
    /\ fit_i' = 0
    /\ fit_j' = 0
    /\ fit_calls' = [p \in Blocks \X Blocks |-> 0]
    /\ pc' = "fit"
    /\ UNCHANGED <<fnVars, M, C, dd2_args, frames, call, spVars>>

\* layers.index(_x) raises ValueError for a neuron of a layer not in layers
LayerIndexError ==
    /\ pc = "cell_d278872a"
    /\ ~InLayers(M)
    /\ model_matrix' = zeros
    /\ pc' = "error"
    /\ UNCHANGED <<fnVars, M, C, block_assignment, fit_i, fit_j, fit_calls,
                   dd2_args, frames, call, spVars>>

\* one pass of the body of the loops over src_layer and tgt_layer
FitStep ==
    /\ pc = "fit"
    /\ LET src_layer == layers[fit_i + 1]
           tgt_layer == layers[fit_j + 1]
           m_src == gids_eq(M, src_layer)
           m_tgt == gids_eq(M, tgt_layer)
           mat == submatrix(M, m_src, m_tgt)
           mdl == conn_prob_2nd_order_pathway_model(mat, m_src, m_tgt)
       IN  /\ model_matrix' = store_fit(model_matrix, fit_i, fit_j, mdl)
           /\ fit_calls' = [fit_calls EXCEPT ![<<fit_i, fit_j>>] = @ + 1]
    /\ IF fit_j + 1 < Len(layers)
         THEN fit_j' = fit_j + 1 /\ UNCHANGED <<fit_i, pc>>
         ELSE IF fit_i + 1 < Len(layers)
           THEN fit_i' = fit_i + 1 /\ fit_j' = 0 /\ UNCHANGED pc
           ELSE pc' = "randomize" /\ UNCHANGED <<fit_i, fit_j>>
    /\ UNCHANGED <<fnVars, M, C, block_assignment, dd2_args, frames, call, spVars>>

\* ctrl = run_DD2_block(...); C = ConnectivityMatrix(ctrl, M._vertex_properties)
Randomize ==
    /\ pc = "randomize"
    /\ dd2_args' = run_DD2_block_args(M, model_matrix, block_assignment)
    /\ \E ctrl \in EdgeLists(dd2_args'.n) :
          C' = ConnectivityMatrix(ctrl, M.vertices)
    /\ pc' = "cell_1a12c4a5"
    /\ UNCHANGED <<fnVars, M, model_matrix, block_assignment, fit_i, fit_j,
                   fit_calls, frames, call, spVars>>

\* deltas = build_edge_delta_dataframe(M); deltas_ctrl = ...(C)
BuildDeltas ==
    /\ pc = "cell_1a12c4a5"
    /\ frames' = ("deltas" :> build_edge_delta_dataframe(M))
                 @@ ("deltas_ctrl" :> build_edge_delta_dataframe(C))
    /\ pc' = "cell_6b5edf78"
    /\ UNCHANGED <<fnVars, nbVars, call, spVars>>

\* deltas_and_abs, deltas_and_abs_ctrl
BuildAbsolute ==
    /\ pc = "cell_6b5edf78"
    /\ frames' = frames
          @@ ("deltas_and_abs" :>
                concat_columns(frames["deltas"], absolute_locations(M)))
          @@ ("deltas_and_abs_ctrl" :>
                concat_columns(frames["deltas_ctrl"], absolute_locations(C)))
    /\ pc' = "done"
    /\ UNCHANGED <<fnVars, nbVars, call, spVars>>

Next ==
    \/ BeginFit
    \/ LayerIndexError
    \/ FitStep
    \/ Randomize
    \/ BuildDeltas
    \/ BuildAbsolute
Spec == Init /\ [][Next]_vars

\* C7: build_edge_delta_dataframe returns one row per connection, X, Y, Z
\* are post minus pre, source_layer / target_layer are the layers of the
\* pre- / post-synaptic neuron
DeltasOf(m, name) ==
    /\ DOMAIN frames[name] = 1..Len(m.edges)
    /\ \A e \in DOMAIN frames[name] :
        LET pre == m.vertices[m.edges[e][1]]
            post == m.vertices[m.edges[e][2]]
            row == frames[name][e]
        IN  /\ row["X"] = post.X - pre.X
            /\ row["Y"] = post.Y - pre.Y
            /\ row["Z"] = post.Z - pre.Z
            /\ row["source_layer"] = pre.layer
            /\ row["target_layer"] = post.layer
C7_EdgeDeltas ==
    pc \in {"cell_6b5edf78", "done"} =>
        DeltasOf(M, "deltas") /\ DeltasOf(C, "deltas_ctrl")
\* a reciprocal pair across two layers: two rows of opposite offsets
C7_Witness ==
    /\ pc = "cell_6b5edf78"
    /\ Len(M.edges) = 2
    /\ frames["deltas"][1]["X"] > 0
    /\ frames["deltas"][2]["X"] < 0
    /\ frames["deltas"][1]["source_layer"] # frames["deltas"][1]["target_layer"]

\* C8: C has the vertices of M with all their properties, and the
\* randomization is handed len(M) nodes, as many as block_assignment and the
\* coordinate array hold
C8_ControlVertices ==
    pc \in {"cell_1a12c4a5", "cell_6b5edf78", "done"} =>
        /\ C.vertices = M.vertices
        /\ \A v \in DOMAIN C.vertices :
              {"int_layer", "X", "Y", "Z"} \subseteq DOMAIN C.vertices[v]
        /\ dd2_args.n = Len(M.vertices)
        /\ dd2_args.n = Len(dd2_args.block_assignment)
        /\ dd2_args.n = Len(dd2_args.coords)
        /\ \A e \in DOMAIN C.edges :
              C.edges[e][1] \in 1..dd2_args.n /\ C.edges[e][2] \in 1..dd2_args.n
\* a control whose connectivity differs from the data
C8_Witness ==
    /\ pc = "cell_1a12c4a5"
    /\ C.edges # M.edges
    /\ Len(C.edges) > 0
    /\ M.vertices[1] # M.vertices[2]

\* C9: after the loop model_matrix[i, j] holds scale and exponent of the fit
\* on the sub-matrix from layers[i] to layers[j], each pair fitted once
C9_ModelMatrix ==
    pc \in {"randomize", "cell_1a12c4a5", "cell_6b5edf78", "done"} =>
        \A a \in Blocks, b \in Blocks :
            LET pre == {v \in DOMAIN M.vertices : M.vertices[v].int_layer = layers[a + 1]}
                post == {v \in DOMAIN M.vertices : M.vertices[v].int_layer = layers[b + 1]}
                sub == {p \in Pairs(Len(M.vertices)) :
                           /\ p[1] \in pre /\ p[2] \in post
                           /\ \E e \in DOMAIN M.edges : M.edges[e] = p}
                want == [mat |-> sub, pre |-> pre, post |-> post]
            IN  /\ model_matrix[<<a, b>>][1] = [param |-> "scale"] @@ want
                /\ model_matrix[<<a, b>>][2] = [param |-> "exponent"] @@ want
                /\ fit_calls[<<a, b>>] = 1
\* the loop is over and the fit of one pathway differs from its reverse
C9_Witness ==
    /\ pc = "randomize"
    /\ \E a \in Blocks, b \in Blocks :
          /\ model_matrix[<<a, b>>][1].mat # {}
          /\ model_matrix[<<b, a>>][1].mat = {}

\* ---------------------------------------------------------------------
\* The interactive widgets: cells cfa12692, af3bb7a6, 85318bf5
\* ---------------------------------------------------------------------
MaxEdges == 1
DefaultMinCount == 50
CounterMinCount == 25

AxisOrder == <<"X", "Y", "Z">>
DataNames == <<"deltas", "deltas_ctrl">>
DataAbsNames == <<"deltas_and_abs", "deltas_and_abs_ctrl">>
\* positions of the "Rotation" slider, as exact rotations cos = c/den, sin = s/den
Rotations == {[c |-> 1, s |-> 0, den |-> 1], [c |-> 3, s |-> 4, den |-> 5]}
\* positions of the "Resolution" slider the callbacks are run with
WidgetResolutions == {5, 20}
\* what the SelectMultiple widgets of source and target layers can hold
SourceSelections == {{"2", "3", "6"}, {"2"}}
TargetSelections == {{"2", "3", "6"}, {}}
\* <<ax_hor, ax_vert>>: the default, two other planes, and twice the same axis
AxisPairs == {<<"Z", "X">>, <<"X", "Y">>, <<"Y", "Z">>, <<"X", "X">>}
Sides == {"src", "tgt"}

\* arithmetic on float cells
QAdd(a, b) ==
    IF a.nan \/ b.nan THEN NaN
    ELSE IF a.den = b.den THEN Quot(a.num + b.num, a.den)
    ELSE Quot(a.num * b.den + b.num * a.den, a.den * b.den)
QSub(a, b) ==
    IF a.nan \/ b.nan THEN NaN
    ELSE IF a.den = b.den THEN Quot(a.num - b.num, a.den)
    ELSE Quot(a.num * b.den - b.num * a.den, a.den * b.den)
RECURSIVE QSum(_, _)
QSum(col, rows) ==
    IF rows = {} THEN Quot(0, 1)
    ELSE LET e == CHOOSE x \in rows : TRUE
         IN  QAdd(col[e], QSum(col, rows \ {e}))
\* Series.mean(): NaN on an empty Series
mean(col, rows) ==
    IF rows = {} THEN NaN
    ELSE LET t == QSum(col, rows)
         IN  IF t.nan THEN NaN ELSE Quot(t.num, t.den * Cardinality(rows))

\* filtered(df_in, fltr_dict): the rows whose value of every key is in the
\* selection, as a new object
isin_rows(df, fltr_dict) ==
    {e \in DOMAIN df : \A k \in DOMAIN fltr_dict : df[e][k] \in fltr_dict[k]}
filteredNoCopy(h, ref, fltr_dict) ==
    IF isin_rows(h[ref], fltr_dict) = DOMAIN h[ref]
    THEN [frames |-> h, ref |-> ref]
    ELSE [frames |-> [h EXCEPT !["copy"] =
                         [e \in isin_rows(h[ref], fltr_dict) |-> h[ref][e]]],
          ref |-> "copy"]
filtered(h, ref, fltr_dict) ==
    [frames |-> [h EXCEPT !["copy"] =
                    [e \in isin_rows(h[ref], fltr_dict) |-> h[ref][e]]],
     ref |-> "copy"]

\* rotated(df_in, cols, angle): numpy.dot(v_in, mat), the other columns kept
rotated(df, cols, angle) ==
    [e \in DOMAIN df |->
        [k \in DOMAIN df[e] |->
            IF k = cols[1]
            THEN (df[e][cols[1]] * angle.c + df[e][cols[2]] * angle.s) \div angle.den
            ELSE IF k = cols[2]
            THEN (df[e][cols[2]] * angle.c - df[e][cols[1]] * angle.s) \div angle.den
            ELSE df[e][k]]]

\* centered(df_in, cols_to_center): assigns to the columns of the object
\* it is handed
RECURSIVE centered(_, _, _)
centered(h, ref, cols_to_center) ==
    IF cols_to_center = <<>> THEN h
    ELSE LET col == Head(cols_to_center)
             mn == mean([e \in DOMAIN h[ref] |-> h[ref][e][col]], DOMAIN h[ref])
             h1 == [h EXCEPT ![ref] =
                      [e \in DOMAIN h[ref] |->
                          [h[ref][e] EXCEPT ![col] = QSub(h[ref][e][col], mn)]]]
         IN  centered(h1, ref, Tail(cols_to_center))

\* asymmetry_counter(series_in, min_count=25)
asymmetry_counterLeq(col, rows) ==
    IF Cardinality(rows) <= CounterMinCount THEN NaN ELSE mean(col, rows)
asymmetry_counter(col, rows) ==
    IF Cardinality(rows) < CounterMinCount THEN NaN ELSE mean(col, rows)

Series3(res) == [c \in Axes |-> res]

\* display_func_smpl up to the plot
display_func_smpl(h, res, data_idx, ax_hor, ax_vert) ==
    LET data == h[DataNames[data_idx + 1]]
        dgtz_data == digitized(data, Series3(res))
    IN  [frames |-> h, df_in |-> data, resolutions |-> Series3(res),
         dgtz |-> dgtz_data, axes |-> <<ax_hor, ax_vert>>,
         min_count |-> DefaultMinCount,
         I |-> spatial_asymmetry(dgtz_data, <<ax_hor, ax_vert>>, DefaultMinCount)]

\* display_func_cmplx up to the plot
display_func_cmplxBinFirst(h, res, rot, data_idx, src_l, tgt_l, ax_hor, ax_vert) ==
    LET all_axes == SelectSeq(AxisOrder, LAMBDA a : a # ax_vert)
        f == filtered(h, DataNames[data_idx + 1],
                      [source_layer |-> src_l, target_layer |-> tgt_l])
        d1 == digitized(f.frames[f.ref], Series3(res))
        d2 == rotated(d1, all_axes, rot)
    IN  [frames |-> f.frames, df_in |-> f.frames[f.ref], resolutions |-> Series3(res),
         dgtz |-> d2, axes |-> <<ax_hor, ax_vert>>,
         min_count |-> DefaultMinCount,
         I |-> spatial_asymmetry(d2, <<ax_hor, ax_vert>>, DefaultMinCount)]
display_func_cmplx(h, res, rot, data_idx, src_l, tgt_l, ax_hor, ax_vert) ==
    LET all_axes == SelectSeq(AxisOrder, LAMBDA a : a # ax_vert)
        f == filtered(h, DataNames[data_idx + 1],
                      [source_layer |-> src_l, target_layer |-> tgt_l])
        d1 == rotated(f.frames[f.ref], all_axes, rot)
        d2 == digitized(d1, Series3(res))
    IN  [frames |-> f.frames, df_in |-> d1, resolutions |-> Series3(res),
         dgtz |-> d2, axes |-> <<ax_hor, ax_vert>>,
         min_count |-> DefaultMinCount,
         I |-> spatial_asymmetry(d2, <<ax_hor, ax_vert>>, DefaultMinCount)]

\* display_func1 up to the plot
AbsColumn(side, ax) == side \o "_" \o ax
display_func1(h, res, data_idx, side, src_l, tgt_l, ax_hor, ax_vert) ==
    LET rest == SelectSeq(AxisOrder, LAMBDA a : a \notin {ax_hor, ax_vert})
        ax_asym == AbsColumn(side, rest[1])
        f == filtered(h, DataAbsNames[data_idx + 1],
                      [source_layer |-> src_l, target_layer |-> tgt_l])
        h1 == centered(f.frames, f.ref, <<ax_asym>>)
        df == h1[f.ref]
        series == [c \in {ax_hor, ax_vert} |-> res]
        dg == digitized(df, series)
        bins == {<<dg[e][ax_vert], dg[e][ax_hor]>> : e \in DOMAIN dg}
        col == [e \in DOMAIN df |-> df[e][ax_asym]]
    IN  [frames |-> h1, df_in |-> df, resolutions |-> series,
         dgtz |-> dg, axes |-> <<ax_vert, ax_hor>>,
         min_count |-> CounterMinCount,
         I |-> [b \in bins |->
                  asymmetry_counter(col,
                      {e \in DOMAIN dg : <<dg[e][ax_vert], dg[e][ax_hor]>> = b})]]

\* the state after all cells have run
WidgetVertices ==
    << [layer |-> "2", int_layer |-> 2, X |-> -10, Y |-> 20, Z |-> 10],
       [layer |-> "3", int_layer |-> 3, X |-> 10, Y |-> 30, Z |-> -10],
       [layer |-> "6", int_layer |-> 6, X |-> 10, Y |-> 60, Z |-> 10] >>
WidgetM ==
    [vertices |-> WidgetVertices, edges |-> SortedEdges(Pairs(Len(WidgetVertices)))]
WidgetEdgeLists ==
    {SortedEdges(S) : S \in {T \in SUBSET Pairs(Len(WidgetVertices)) :
                                Cardinality(T) <= MaxEdges}}
FittedMatrix(m) ==
    [p \in Blocks \X Blocks |->
        LET m_src == gids_eq(m, layers[p[1] + 1])
            m_tgt == gids_eq(m, layers[p[2] + 1])
            mdl == conn_prob_2nd_order_pathway_model(
                       submatrix(m, m_src, m_tgt), m_src, m_tgt)
        IN  <<mdl.exp_model_scale, mdl.exp_model_exponent>>]

InitWidgets ==
    /\ pc = "widgets"
    /\ IdleFn
    /\ M = WidgetM
    /\ \E ctrl \in WidgetEdgeLists : C = ConnectivityMatrix(ctrl, M.vertices)
    /\ model_matrix = FittedMatrix(M)
    /\ block_assignment =
          [v \in DOMAIN M.vertices |-> index(layers, M.vertices[v].int_layer)]
    /\ fit_i = Len(layers) - 1
    /\ fit_j = Len(layers) - 1
    /\ fit_calls = [p \in Blocks \X Blocks |-> 1]
    /\ dd2_args = run_DD2_block_args(M, model_matrix, block_assignment)
    /\ frames = ("deltas" :> build_edge_delta_dataframe(M))
          @@ ("deltas_ctrl" :> build_edge_delta_dataframe(C))
          @@ ("deltas_and_abs" :>
                concat_columns(build_edge_delta_dataframe(M), absolute_locations(M)))
          @@ ("deltas_and_abs_ctrl" :>
                concat_columns(build_edge_delta_dataframe(C), absolute_locations(C)))
          @@ ("copy" :> EmptyFrame)
    /\ call = NoCall
    /\ IdleSp

\* what a callback leaves behind: the tables it assigned to, the calls of
\* digitized and of the asymmetry it made; its local copy is released
Shown(r) ==
    /\ frames' = [r.frames EXCEPT !["copy"] = EmptyFrame]
    /\ df_in' = r.df_in
    /\ resolutions' = r.resolutions
    /\ dgtz_deltas' = r.dgtz
    /\ axes_to_use' = r.axes
    /\ min_count' = r.min_count
    /\ I' = r.I

DisplayFuncSmpl ==
    /\ pc \in {"widgets", "shown"}
    /\ \E res \in WidgetResolutions, data_idx \in {0, 1}, ax \in AxisPairs :
        /\ Shown(display_func_smpl(frames, res, data_idx, ax[1], ax[2]))
        /\ call' = [func |-> "display_func_smpl", res |-> res, data_idx |-> data_idx,
                    ax_hor |-> ax[1], ax_vert |-> ax[2]]
    /\ pc' = "shown"
    /\ UNCHANGED <<nbVars, spVars>>

DisplayFuncCmplx ==
    /\ pc \in {"widgets", "shown"}
    /\ \E res \in WidgetResolutions, rot \in Rotations, data_idx \in {0, 1},
          src_l \in SourceSelections, tgt_l \in TargetSelections, ax \in AxisPairs :
        /\ Shown(display_func_cmplx(frames, res, rot, data_idx, src_l, tgt_l,
                                    ax[1], ax[2]))
        /\ call' = [func |-> "display_func_cmplx", res |-> res, rot |-> rot,
                    data_idx |-> data_idx, src_l |-> src_l, tgt_l |-> tgt_l,
                    ax_hor |-> ax[1], ax_vert |-> ax[2]]
    /\ pc' = "shown"
    /\ UNCHANGED <<nbVars, spVars>>

DisplayFunc1 ==
    /\ pc \in {"widgets", "shown"}
    /\ \E res \in WidgetResolutions, data_idx \in {0, 1}, side \in Sides,
          src_l \in SourceSelections, tgt_l \in TargetSelections, ax \in AxisPairs :
        /\ Shown(display_func1(frames, res, data_idx, side, src_l, tgt_l,
                               ax[1], ax[2]))
        /\ call' = [func |-> "display_func1", res |-> res, side |-> side,
                    data_idx |-> data_idx, src_l |-> src_l, tgt_l |-> tgt_l,
                    ax_hor |-> ax[1], ax_vert |-> ax[2]]
    /\ pc' = "shown"
    /\ UNCHANGED <<nbVars, spVars>>

NextWidgets == DisplayFuncSmpl \/ DisplayFuncCmplx \/ DisplayFunc1
SpecWidgets == InitWidgets /\ [][NextWidgets]_vars

\* C5: whatever callbacks have run, with whatever widget values, the shared
\* tables deltas, deltas_ctrl, deltas_and_abs and deltas_and_abs_ctrl hold
\* what the cells that built them put there
C5_SharedTablesUnchanged ==
    pc \in {"widgets", "shown"} =>
        /\ frames["deltas"] = build_edge_delta_dataframe(M)
        /\ frames["deltas_ctrl"] = build_edge_delta_dataframe(C)
        /\ frames["deltas_and_abs"] =
              concat_columns(build_edge_delta_dataframe(M), absolute_locations(M))
        /\ frames["deltas_and_abs_ctrl"] =
              concat_columns(build_edge_delta_dataframe(C), absolute_locations(C))
\* display_func1 ran with a filter that keeps every row, and centering
\* changed a value of the table it worked on
C5_Witness ==
    /\ pc = "shown"
    /\ call.func = "display_func1"
    /\ LET data == frames[DataAbsNames[call.data_idx + 1]]
       IN  /\ DOMAIN df_in = DOMAIN data
           /\ \E e \in DOMAIN df_in :
                 \E k \in DOMAIN df_in[e] : df_in[e][k] # data[e][k]

\* C6: display_func_smpl and display_func_cmplx hand spatial_asymmetry a
\* table binned with the current resolution on X, Y and Z; in
\* display_func_cmplx its rows are the rows the pathway filter keeps and the
\* bins are those of their rotated coordinates
PlaneOf(ax_vert) == SelectSeq(AxisOrder, LAMBDA a : a # ax_vert)
\* den times the coordinate c of a row after the rotation around ax_vert
RotatedTimesDen(row, c, ax_vert, rot) ==
    LET plane == PlaneOf(ax_vert)
    IN  IF c = plane[1] THEN row[plane[1]] * rot.c + row[plane[2]] * rot.s
        ELSE IF c = plane[2] THEN row[plane[2]] * rot.c - row[plane[1]] * rot.s
        ELSE row[c] * rot.den
C6_BinnedBeforeAsymmetry ==
    (pc = "shown" /\ call.func \in {"display_func_smpl", "display_func_cmplx"}) =>
        LET data == frames[DataNames[call.data_idx + 1]]
        IN  /\ resolutions = [c \in Axes |-> call.res]
            /\ axes_to_use = <<call.ax_hor, call.ax_vert>>
            /\ \A e \in DOMAIN dgtz_deltas :
                  /\ DOMAIN dgtz_deltas[e] = Axes
                  /\ \A c \in Axes : dgtz_deltas[e][c] % call.res = 0
                  /\ BinOf(dgtz_deltas[e], axes_to_use) \in DOMAIN I
            /\ call.func = "display_func_smpl" =>
                  /\ DOMAIN dgtz_deltas = DOMAIN data
                  /\ \A e \in DOMAIN data : \A c \in Axes :
                        2 * Abs(dgtz_deltas[e][c] - data[e][c]) <= call.res
            /\ call.func = "display_func_cmplx" =>
                  /\ DOMAIN dgtz_deltas =
                        {e \in DOMAIN data :
                            /\ data[e]["source_layer"] \in call.src_l
                            /\ data[e]["target_layer"] \in call.tgt_l}
                  /\ \A e \in DOMAIN dgtz_deltas : \A c \in Axes :
                        2 * Abs(dgtz_deltas[e][c] * call.rot.den
                                - RotatedTimesDen(data[e], c, call.ax_vert, call.rot))
                            <= call.res * call.rot.den
\* display_func_cmplx ran with a filter that drops some rows and a rotation
\* that moves a coordinate which the binning then moves again
C6_Witness ==
    /\ pc = "shown"
    /\ call.func = "display_func_cmplx"
    /\ call.rot.s # 0
    /\ LET data == frames[DataNames[call.data_idx + 1]]
       IN  /\ DOMAIN dgtz_deltas # {}
           /\ DOMAIN dgtz_deltas # DOMAIN data
           /\ \E e \in DOMAIN dgtz_deltas : \E c \in Axes :
                 /\ df_in[e][c] # data[e][c]
                 /\ dgtz_deltas[e][c] # df_in[e][c]

\* ---------------------------------------------------------------------
\* Spine notebook: synapses_from_all_edge_populations (cell ef08e99d)
\* ---------------------------------------------------------------------
MaxSyn == 2
NumNodes == 2

\* list(circ.edges)
edge_pop_names ==
    << "em_extrinsic__microns_intrinsic__chemical",
       "microns_intrinsic__microns_intrinsic__chemical",
       "microns_virtual__microns_intrinsic__chemical" >>
\* spine_id of a synapse: -1 on a shaft, the spine's identifier otherwise
SpineIds == {-1, 0}
\* the afferent edges of one neuron in one population, by edge id
EdgeTables ==
    UNION {[1..n -> [spine_id : SpineIds]] : n \in 0..MaxSyn}

\* circ.edges[edge_pop].afferent_edges(nrn_id, properties=...)
afferent_edges(circ, edge_pop, nrn) == circ[edge_pop]

\* the body of the loop over edge_pop_names
append_popKeysAlways(acc, edge_pop, pop_syns) ==
    IF Len(pop_syns) > 0
    THEN [syns |-> Append(acc.syns, pop_syns), keys |-> Append(acc.keys, edge_pop)]
    ELSE [syns |-> acc.syns, keys |-> Append(acc.keys, edge_pop)]
append_pop(acc, edge_pop, pop_syns) ==
    IF Len(pop_syns) > 0
    THEN [syns |-> Append(acc.syns, pop_syns), keys |-> Append(acc.keys, edge_pop)]
    ELSE acc

\* the lists syns and keys after the first k edge populations
RECURSIVE collect(_, _, _)
collect(circ, nrn, k) ==
    IF k = 0 THEN [syns |-> <<>>, keys |-> <<>>]
    ELSE append_pop(collect(circ, nrn, k - 1), edge_pop_names[k],
                    afferent_edges(circ, edge_pop_names[k], nrn))

\* pandas.concat(syns, axis=0, keys=keys, names=["edge_population"]): the
\* rows of the k-th table under the k-th key; no table at all is an error
RECURSIVE concat_rows(_, _, _)
concat_rows(syns, keys, k) ==
    IF k = 0 THEN <<>>
    ELSE concat_rows(syns, keys, k - 1) \o
         [e \in DOMAIN syns[k] |->
             [edge_population |-> keys[k], edge_id |-> e,
              spine_id |-> syns[k][e].spine_id]]
concatEmptyOk(syns, keys) ==
    [error |-> "", rows |-> concat_rows(syns, keys, Len(syns))]
concat(syns, keys) ==
    IF Len(syns) = 0 THEN [error |-> "ValueError", rows |-> <<>>]
    ELSE [error |-> "", rows |-> concat_rows(syns, keys, Len(syns))]

synapses_from_all_edge_populations(circ, nrn) ==
    LET acc == collect(circ, nrn, Len(edge_pop_names))
    IN  concat(acc.syns, acc.keys)

PopNames == {edge_pop_names[k] : k \in DOMAIN edge_pop_names}

InitSpines ==
    /\ pc = "cell_ef08e99d"
    /\ IdleFn
    /\ IdleNb
    /\ frames = <<>>
    /\ call = NoCall
    /\ nrn_id \in 0..(NumNodes - 1)
    /\ circ_edges \in [PopNames -> EdgeTables]
    /\ synapses = <<>>
    /\ IdleNrn
    /\ IdleCtl

\* synapses = synapses_from_all_edge_populations(nrn_id)
CallSynapses ==
    /\ pc = "cell_ef08e99d"
    /\ synapses_from_all_edge_populations(circ_edges, nrn_id).error = ""
    /\ synapses' = synapses_from_all_edge_populations(circ_edges, nrn_id).rows
    /\ pc' = "returned"
    /\ UNCHANGED <<fnVars, nbVars, frames, call, nrn_id, circ_edges, nrnVars, ctlVars>>

\* pandas.concat raises on the empty list: nothing is returned
CallSynapsesError ==
    /\ pc = "cell_ef08e99d"
    /\ synapses_from_all_edge_populations(circ_edges, nrn_id).error # ""
    /\ pc' = "error"
    /\ UNCHANGED <<fnVars, nbVars, frames, call, spVars>>

NextSpines == CallSynapses \/ CallSynapsesError
SpecSpines == InitSpines /\ [][NextSpines]_vars

\* C10: the returned table has one row per afferent edge of every
\* population, each row under the name of the population it came from, and
\* a population name occurs exactly when the population has such an edge
RowsOf(pop) == SelectSeq(synapses, LAMBDA r : r.edge_population = pop)
RECURSIVE TotalEdges(_)
TotalEdges(k) == IF k = 0 THEN 0 ELSE TotalEdges(k - 1) + Len(circ_edges[edge_pop_names[k]])
C10_AllAfferentSynapses ==
    pc = "returned" =>
        /\ Len(synapses) = TotalEdges(Len(edge_pop_names))
        /\ \A r \in DOMAIN synapses : synapses[r].edge_population \in PopNames
        /\ \A pop \in PopNames :
            /\ Len(RowsOf(pop)) = Len(circ_edges[pop])
            /\ \A e \in DOMAIN RowsOf(pop) :
                  /\ RowsOf(pop)[e].edge_id = e
                  /\ RowsOf(pop)[e].spine_id = circ_edges[pop][e].spine_id
            /\ (\E r \in DOMAIN synapses : synapses[r].edge_population = pop)
                  <=> (Len(circ_edges[pop]) > 0)
\* the first population has no afferent edge, the two others differ
C10_Witness ==
    /\ pc = "returned"
    /\ Len(circ_edges[edge_pop_names[1]]) = 0
    /\ Len(circ_edges[edge_pop_names[2]]) > 0
    /\ Len(circ_edges[edge_pop_names[3]]) > 0
    /\ circ_edges[edge_pop_names[2]] # circ_edges[edge_pop_names[3]]

\* ---------------------------------------------------------------------
\* Spine notebook: the neuron widgets and the counting loop
\* (cells 5871f242, 0adbf229, 70e2fbe7, c66da562, f65caa74)
\* ---------------------------------------------------------------------
Extrinsic == "em_extrinsic__microns_intrinsic__chemical"

\* what opening and parsing the spine file of a neuron can raise
SpineFileErrors == {"FileNotFoundError", "JSONDecodeError"}
\* a neuron of microns_intrinsic: its "morphology" property, and what
\* reading the file its "spine_info" property names gives
NodeKinds ==
    {[morphology |-> "_NONE", spine_file |-> [error |-> "FileNotFoundError", len |-> 0]]}
    \cup {[morphology |-> "morph", spine_file |-> f] :
            f \in {[error |-> "", len |-> 2]}
                  \cup {[error |-> e, len |-> 0] : e \in SpineFileErrors}}
\* the afferent edges of a neuron in the three edge populations: none at
\* all, extrinsic ones only, intrinsic ones only, or several populations
NeuronAfferents ==
    {a \in {(edge_pop_names[1] :> e) @@ (edge_pop_names[2] :> i)
               @@ (edge_pop_names[3] :> v) :
               e \in {<<>>, <<[spine_id |-> -1]>>},
               i \in {<<>>, <<[spine_id |-> 0], [spine_id |-> -1]>>},
               v \in {<<>>, <<[spine_id |-> 0]>>}} :
        Len(a[edge_pop_names[3]]) > 0 => Len(a[edge_pop_names[2]]) > 0}

\* node_pop.count(); the node ids of a population are 0 .. count - 1
count(pop) == Cardinality(DOMAIN pop)

\* nrn_props.loc[nrn_props["morphology"] != "_NONE"]: the index of the rows
\* kept, in the order of the node ids
RECURSIVE loc_index(_, _)
loc_index(pop, n) ==
    IF n = 0 THEN <<>>
    ELSE IF pop[n - 1].morphology # "_NONE"
         THEN Append(loc_index(pop, n - 1), n - 1)
         ELSE loc_index(pop, n - 1)
loc_morphology(pop) == [index |-> loc_index(pop, count(pop)), cols |-> <<>>]

\* widgets.IntSlider(min=.., max=.., step=1, value=..)
IntSlider(mn, mx, v) ==
    IF mx < mn THEN [error |-> "TraitError", min |-> mn, max |-> mn, value |-> mn]
    ELSE [error |-> "", min |-> mn, max |-> mx, value |-> v]
NoSlider == [error |-> "none", min |-> 0, max |-> 0, value |-> 0]

\* the max of the slider of cell 0adbf229 and of the slider of cell 70e2fbe7
slider_max_idxLen(props) == Len(props.index)
slider_max_idx(props) == Len(props.index) - 1
slider_max_nrn(pop) == count(pop)

\* nrn_props.index[idx]
index_at(ix, idx) ==
    LET k == IF idx >= 0 THEN idx + 1 ELSE Len(ix) + idx + 1
    IN  IF k \in 1..Len(ix) THEN [error |-> "", value |-> ix[k]]
        ELSE [error |-> "IndexError", value |-> -1]

\* synapses.drop(index=labels, errors=...) on the level edge_population
dropRaise(rows, labels, errors) ==
    IF \E l \in labels : \A r \in DOMAIN rows : rows[r].edge_population # l
    THEN [error |-> "KeyError", rows |-> <<>>]
    ELSE [error |-> "",
          rows |-> SelectSeq(rows, LAMBDA r : r.edge_population \notin labels)]
drop(rows, labels, errors) ==
    IF errors = "raise"
       /\ \E l \in labels : \A r \in DOMAIN rows : rows[r].edge_population # l
    THEN [error |-> "KeyError", rows |-> <<>>]
    ELSE [error |-> "",
          rows |-> SelectSeq(rows, LAMBDA r : r.edge_population \notin labels)]

\* groupby("edge_population").apply(lookup_presynaptic_property, ...): the
\* populations the lookup is applied to, one call per group
groupby_apply(rows) == {rows[r].edge_population : r \in DOMAIN rows}

NoResult == [error |-> "", nrn_id |-> -1, synapses |-> <<>>,
             non_extrinsics |-> <<>>, lookups |-> {}]

\* display_fun(idx) of cell 0adbf229 up to the plot
display_fun_idx(props, circ, idx) ==
    LET at == index_at(props.index, idx)
    IN  IF at.error # "" THEN [NoResult EXCEPT !.error = at.error]
        ELSE LET s == synapses_from_all_edge_populations(circ[at.value], at.value)
             IN  [NoResult EXCEPT !.error = s.error, !.nrn_id = at.value,
                                  !.synapses = s.rows]

\* display_fun(nrn_id) of cell 70e2fbe7 up to the lookup; missing is what the
\* circuit library does with an identifier that is not in the population
display_fun_nrn(pop, circ, nrn, missing) ==
    IF nrn \notin DOMAIN pop /\ missing = "raises"
    THEN [NoResult EXCEPT !.error = "BluepySnapError", !.nrn_id = nrn]
    ELSE LET aff == IF nrn \in DOMAIN pop THEN circ[nrn]
                    ELSE [pop_name \in PopNames |-> <<>>]
             s == synapses_from_all_edge_populations(aff, nrn)
             d == drop(s.rows, {Extrinsic}, "ignore")
         IN  IF s.error # "" THEN [NoResult EXCEPT !.error = s.error, !.nrn_id = nrn]
             ELSE IF d.error # ""
             THEN [NoResult EXCEPT !.error = d.error, !.nrn_id = nrn,
                                   !.synapses = s.rows]
             ELSE [NoResult EXCEPT !.nrn_id = nrn, !.synapses = s.rows,
                                   !.non_extrinsics = d.rows,
                                   !.lookups = groupby_apply(d.rows)]

\* read_spine_info(node_pop, nrn_id): the DataFrame of the spines (here its
\* length), or the exception of the lookup, of open or of json.load
read_spine_infoDefault(pop, nrn) ==
    IF pop[nrn].spine_file.error # "" THEN [error |-> "", len |-> 0]
    ELSE pop[nrn].spine_file
read_spine_info(pop, nrn) == pop[nrn].spine_file

\* nrn_props.loc[nrn_id, col] = v: a new column holds NaN in the other rows
IndexSet(props) == {props.index[k] : k \in DOMAIN props.index}
set_loc(props, nrn, col, v) ==
    LET old == IF col \in DOMAIN props.cols THEN props.cols[col]
               ELSE [m \in IndexSet(props) |-> NaN]
        new == [m \in IndexSet(props) |-> IF m = nrn THEN v ELSE old[m]]
    IN  [props EXCEPT !.cols =
            [c \in DOMAIN props.cols \cup {col} |->
                IF c = col THEN new ELSE props.cols[c]]]

\* (syns["spine_id"] > -1).sum() and (syns["spine_id"] <= -1).sum()
count_on_spinesPositive(syns) == Len(SelectSeq(syns, LAMBDA r : r.spine_id > 0))
count_on_spines(syns) == Len(SelectSeq(syns, LAMBDA r : r.spine_id > -1))
count_on_shafts(syns) == Len(SelectSeq(syns, LAMBDA r : r.spine_id <= -1))

\* one pass through the body of the loop of cell f65caa74
loop_body(pop, circ, props, nrn) ==
    LET spines == read_spine_info(pop, nrn)
        p1 == set_loc(props, nrn, "spine_count", Quot(spines.len, 1))
        syns == synapses_from_all_edge_populations(circ[nrn], nrn)
        p2 == set_loc(p1, nrn, "syn_count_on_spines",
                      Quot(count_on_spines(syns.rows), 1))
        p3 == set_loc(p2, nrn, "syn_count_on_shafts",
                      Quot(count_on_shafts(syns.rows), 1))
    IN  IF spines.error # "" THEN [error |-> spines.error, props |-> props]
        ELSE IF syns.error # "" THEN [error |-> syns.error, props |-> p1]
        ELSE [error |-> "", props |-> p3]

\* the state when cell 0adbf229 is about to run
InitNotebook ==
    /\ pc = "cell_0adbf229"
    /\ IdleFn
    /\ IdleNb
    /\ frames = <<>>
    /\ call = NoCall
    /\ nrn_id = 0
    /\ circ_edges = <<>>
    /\ synapses = <<>>
    /\ node_pop \in [0..(NumNodes - 1) -> NodeKinds]
    /\ circ_aff \in [0..(NumNodes - 1) -> NeuronAfferents]
    /\ nrn_props = loc_morphology(node_pop)
    /\ sliders = [idx |-> NoSlider, nrn |-> NoSlider]
    /\ loop_k = 0
    /\ IdleCtl

\* wgt_nrn_id = widgets.IntSlider(min=0, max=len(nrn_props)-1, ...)
CreateSliderIdx ==
    /\ pc = "cell_0adbf229"
    /\ sliders' = [sliders EXCEPT !.idx = IntSlider(0, slider_max_idx(nrn_props), 0)]
    /\ pc' = "cell_70e2fbe7"
    /\ UNCHANGED <<fnVars, nbVars, frames, call, nrn_id, circ_edges, synapses,
                   node_pop, circ_aff, nrn_props, loop_k, ctlVars>>

\* wgt_nrn_id = widgets.IntSlider(min=0, max=node_pop.count(), ...)
CreateSliderNrn ==
    /\ pc = "cell_70e2fbe7"
    /\ sliders' = [sliders EXCEPT !.nrn = IntSlider(0, slider_max_nrn(node_pop), 0)]
    /\ pc' = "cell_f65caa74"
    /\ UNCHANGED <<fnVars, nbVars, frames, call, nrn_id, circ_edges, synapses,
                   node_pop, circ_aff, nrn_props, loop_k, ctlVars>>

\* no cell is running: the kernel serves the callbacks of the widgets
BetweenCells == pc \in {"cell_70e2fbe7", "cell_f65caa74", "done", "error"}

\* the slider of the first widget is moved: display_fun(idx)
MoveSliderIdx ==
    /\ BetweenCells
    /\ sliders.idx.error = ""
    /\ \E idx \in sliders.idx.min .. sliders.idx.max :
        /\ sliders' = [sliders EXCEPT !.idx.value = idx]
        /\ call' = [func |-> "display_fun_idx", arg |-> idx,
                    result |-> display_fun_idx(nrn_props, circ_aff, idx)]
    /\ UNCHANGED <<pc, fnVars, nbVars, frames, nrn_id, circ_edges, synapses,
                   node_pop, circ_aff, nrn_props, loop_k, ctlVars>>

\* the slider of the second widget is moved: display_fun(nrn_id)
MoveSliderNrn ==
    /\ BetweenCells
    /\ sliders.nrn.error = ""
    /\ \E nrn \in sliders.nrn.min .. sliders.nrn.max, missing \in {"raises", "empty"} :
        /\ sliders' = [sliders EXCEPT !.nrn.value = nrn]
        /\ call' = [func |-> "display_fun_nrn", arg |-> nrn,
                    result |-> display_fun_nrn(node_pop, circ_aff, nrn, missing)]
    /\ UNCHANGED <<pc, fnVars, nbVars, frames, nrn_id, circ_edges, synapses,
                   node_pop, circ_aff, nrn_props, loop_k, ctlVars>>

\* for nrn_id in nrn_props.index: the loop is entered, or has nothing to do
StartLoop ==
    /\ pc = "cell_f65caa74"
    /\ loop_k' = 1
    /\ pc' = IF Len(nrn_props.index) = 0 THEN "done" ELSE "loop"
    /\ UNCHANGED <<fnVars, nbVars, frames, call, nrn_id, circ_edges, synapses,
                   node_pop, circ_aff, nrn_props, sliders, ctlVars>>

\* one iteration that runs to its end
LoopIteration ==
    /\ pc = "loop"
    /\ LET nrn == nrn_props.index[loop_k]
           r == loop_body(node_pop, circ_aff, nrn_props, nrn)
       IN  /\ r.error = ""
           /\ nrn_id' = nrn
           /\ nrn_props' = r.props
    /\ loop_k' = loop_k + 1
    /\ pc' = IF loop_k = Len(nrn_props.index) THEN "done" ELSE "loop"
    /\ UNCHANGED <<fnVars, nbVars, frames, call, circ_edges, synapses,
                   node_pop, circ_aff, sliders, ctlVars>>

\* one iteration in which read_spine_info or pandas.concat raises: the
\* exception ends the cell
LoopRaises ==
    /\ pc = "loop"
    /\ LET nrn == nrn_props.index[loop_k]
           r == loop_body(node_pop, circ_aff, nrn_props, nrn)
       IN  /\ r.error # ""
           /\ nrn_id' = nrn
           /\ nrn_props' = r.props
           /\ call' = [func |-> "cell_f65caa74", arg |-> nrn,
                       result |-> [NoResult EXCEPT !.error = r.error, !.nrn_id = nrn]]
    /\ pc' = "error"
    /\ UNCHANGED <<fnVars, nbVars, frames, circ_edges, synapses,
                   node_pop, circ_aff, sliders, loop_k, ctlVars>>

NextNotebook ==
    \/ CreateSliderIdx
    \/ CreateSliderNrn
    \/ MoveSliderIdx
    \/ MoveSliderNrn
    \/ StartLoop
    \/ LoopIteration
    \/ LoopRaises
SpecNotebook == InitNotebook /\ [][NextNotebook]_vars

\* the afferent synapses of a neuron, counted on the circuit
RECURSIVE EdgesWhere(_, _, _)
EdgesWhere(nrn, k, on_spine) ==
    IF k = 0 THEN 0
    ELSE EdgesWhere(nrn, k - 1, on_spine)
         + Cardinality({e \in DOMAIN circ_aff[nrn][edge_pop_names[k]] :
               (circ_aff[nrn][edge_pop_names[k]][e].spine_id > -1) = on_spine})
RECURSIVE EdgesOf(_, _)
EdgesOf(nrn, k) ==
    IF k = 0 THEN 0
    ELSE EdgesOf(nrn, k - 1) + Len(circ_aff[nrn][edge_pop_names[k]])
NumPops == Len(edge_pop_names)
CountColumns == {"syn_count_on_spines", "syn_count_on_shafts"}
\* the cell of a column of nrn_props holds no value
Unset(col, nrn) == col \in DOMAIN nrn_props.cols => nrn_props.cols[col][nrn].nan

\* C11: when the counting loop has finished, every neuron of nrn_props has
\* syn_count_on_spines = number of its afferent synapses with spine_id > -1,
\* syn_count_on_shafts = number with spine_id <= -1, and the two add up to
\* the number of its afferent synapses
C11_SpineAndShaftCounts ==
    (pc = "done" /\ Len(nrn_props.index) > 0) =>
        /\ CountColumns \subseteq DOMAIN nrn_props.cols
        /\ \A nrn \in IndexSet(nrn_props) :
            LET on_spines == nrn_props.cols["syn_count_on_spines"][nrn]
                on_shafts == nrn_props.cols["syn_count_on_shafts"][nrn]
            IN  /\ on_spines = Quot(EdgesWhere(nrn, NumPops, TRUE), 1)
                /\ on_shafts = Quot(EdgesWhere(nrn, NumPops, FALSE), 1)
                /\ on_spines.num + on_shafts.num = EdgesOf(nrn, NumPops)
\* the loop has counted two neurons, one of them with a synapse on the
\* spine of identifier 0 and a synapse on a shaft
C11_Witness ==
    /\ pc = "done"
    /\ Len(nrn_props.index) = 2
    /\ \E nrn \in IndexSet(nrn_props) :
          /\ \E p \in PopNames : \E e \in DOMAIN circ_aff[nrn][p] :
                circ_aff[nrn][p][e].spine_id = 0
          /\ nrn_props.cols["syn_count_on_spines"][nrn].num > 0
          /\ nrn_props.cols["syn_count_on_shafts"][nrn].num > 0

\* C12: every position of the slider of the first neuron widget is a
\* position of nrn_props.index, every neuron of nrn_props is at one of the
\* slider's positions, and none of them has the morphology "_NONE"
C12_SliderOverMorphologies ==
    /\ sliders.idx.error = "" =>
          \A idx \in sliders.idx.min .. sliders.idx.max :
              /\ 0 <= idx /\ idx <= Len(nrn_props.index) - 1
              /\ node_pop[nrn_props.index[idx + 1]].morphology # "_NONE"
    /\ pc # "cell_0adbf229" =>
          \A nrn \in IndexSet(nrn_props) :
              /\ sliders.idx.error = ""
              /\ \E idx \in sliders.idx.min .. sliders.idx.max :
                    nrn_props.index[idx + 1] = nrn
    /\ call.func = "display_fun_idx" =>
          /\ call.result.error # "IndexError"
          /\ call.result.nrn_id = nrn_props.index[call.arg + 1]
\* the slider stands at its last position; a neuron before the one shown
\* has no morphology, so the position is not the neuron's identifier
C12_Witness ==
    /\ call.func = "display_fun_idx"
    /\ call.arg = sliders.idx.max
    /\ call.result.nrn_id # call.arg
    /\ \E n \in DOMAIN node_pop :
          n < call.result.nrn_id /\ node_pop[n].morphology = "_NONE"

\* C13: every position of the slider of the presynaptic-type widget, from
\* its min to its max, is the identifier of a neuron of the intrinsic
\* population, so that display_fun looks up an existing neuron
C13_SliderOverNeurons ==
    /\ sliders.nrn.error = "" =>
          \A nrn \in sliders.nrn.min .. sliders.nrn.max : nrn \in DOMAIN node_pop
    /\ call.func = "display_fun_nrn" => call.arg \in DOMAIN node_pop

\* C14: in display_fun the rows of the extrinsic edge population are
\* removed before the lookup of the presynaptic property, every row of the
\* other populations is kept, the lookup is applied to none but the other
\* populations, and the removal raises nothing for a neuron without
\* extrinsic synapses
C14_ExtrinsicsDropped ==
    call.func = "display_fun_nrn" =>
        LET r == call.result
        IN  /\ r.error # "KeyError"
            /\ (call.arg \in DOMAIN node_pop /\ EdgesOf(call.arg, NumPops) > 0)
                  => r.error = ""
            /\ r.error = "" =>
                  /\ \A k \in DOMAIN r.non_extrinsics :
                        r.non_extrinsics[k].edge_population # Extrinsic
                  /\ \A p \in PopNames \ {Extrinsic} :
                        SelectSeq(r.non_extrinsics, LAMBDA x : x.edge_population = p)
                          = SelectSeq(r.synapses, LAMBDA x : x.edge_population = p)
                  /\ Extrinsic \notin r.lookups
                  /\ r.lookups = {p \in PopNames \ {Extrinsic} :
                                     Len(circ_aff[call.arg][p]) > 0}
\* a neuron with extrinsic and other synapses: rows were removed, rows
\* were kept
C14_Witness ==
    /\ call.func = "display_fun_nrn"
    /\ call.result.error = ""
    /\ Len(call.result.non_extrinsics) > 0
    /\ Len(call.result.non_extrinsics) < Len(call.result.synapses)

\* C16: when read_spine_info raises for a neuron the loop ends there with
\* that exception: no spine_count and no synapse count is written for the
\* neuron or for a later one, and no iteration follows
C16_SpineErrorPropagates ==
    /\ (pc = "loop" /\ node_pop[nrn_props.index[loop_k]].spine_file.error # "")
          => ~ENABLED LoopIteration
    /\ (pc = "error" /\ call.func = "cell_f65caa74"
        /\ call.result.error \in SpineFileErrors) =>
          /\ nrn_props.index[loop_k] = call.arg
          /\ node_pop[call.arg].spine_file.error = call.result.error
          /\ \A k \in loop_k .. Len(nrn_props.index) :
                \A col \in CountColumns \cup {"spine_count"} :
                    Unset(col, nrn_props.index[k])
          /\ ~ENABLED (StartLoop \/ LoopIteration \/ LoopRaises)
\* the spine file of the second neuron of the loop cannot be read
C16_Witness ==
    /\ pc = "error"
    /\ call.func = "cell_f65caa74"
    /\ call.result.error \in SpineFileErrors
    /\ loop_k = 2
    /\ "spine_count" \in DOMAIN nrn_props.cols

\* C18: synapses_from_all_edge_populations returns no empty table: for a
\* neuron without any afferent synapse it ends with the error of
\* pandas.concat, so the callbacks fail on such a neuron and the loop ends
\* there without a count of zero being recorded
C18_NoEmptyTable ==
    /\ (call.func \in {"display_fun_idx", "display_fun_nrn"}
        /\ call.result.nrn_id \in DOMAIN node_pop) =>
          /\ EdgesOf(call.result.nrn_id, NumPops) = 0 => call.result.error = "ValueError"
          /\ call.result.error = "" => Len(call.result.synapses) > 0
    /\ (pc = "loop" /\ EdgesOf(nrn_props.index[loop_k], NumPops) = 0)
          => ~ENABLED LoopIteration
    /\ (pc = "error" /\ call.func = "cell_f65caa74"
        /\ call.result.error = "ValueError") =>
          /\ EdgesOf(call.arg, NumPops) = 0
          /\ \A col \in CountColumns : Unset(col, call.arg)
    /\ \A nrn \in IndexSet(nrn_props) :
          EdgesOf(nrn, NumPops) = 0 => \A col \in CountColumns : Unset(col, nrn)
\* the loop has ended at its second neuron, which has no afferent synapse
C18_Witness ==
    /\ pc = "error"
    /\ call.func = "cell_f65caa74"
    /\ call.result.error = "ValueError"
    /\ loop_k = 2

\* ---------------------------------------------------------------------
\* display_func1 on tables with well-filled bins (cell 85318bf5)
\* ---------------------------------------------------------------------
MaxDropped == 1

\* six neurons of layers 2 and 3 above each other and one of layer 6 aside,
\* all connected to all
DenseVertices ==
    << [layer |-> "2", int_layer |-> 2, X |-> 0, Y |-> 20, Z |-> 0],
       [layer |-> "2", int_layer |-> 2, X |-> 0, Y |-> 22, Z |-> 0],
       [layer |-> "2", int_layer |-> 2, X |-> 0, Y |-> 24, Z |-> 0],
       [layer |-> "2", int_layer |-> 2, X |-> 0, Y |-> 26, Z |-> 0],
       [layer |-> "2", int_layer |-> 2, X |-> 0, Y |-> 28, Z |-> 0],
       [layer |-> "3", int_layer |-> 3, X |-> 0, Y |-> 30, Z |-> 0],
       [layer |-> "6", int_layer |-> 6, X |-> 20, Y |-> 60, Z |-> 0] >>
DenseM ==
    [vertices |-> DenseVertices, edges |-> SortedEdges(Pairs(Len(DenseVertices)))]
\* the control: the connections of M but for some from the first neuron to
\* the three below it
DenseEdgeLists ==
    {SortedEdges(Pairs(Len(DenseVertices)) \ T) :
        T \in {U \in SUBSET {p \in Pairs(Len(DenseVertices)) : p[1] = 1 /\ p[2] <= 4} :
                  Cardinality(U) <= MaxDropped}}

InitCounter ==
    /\ pc = "widgets"
    /\ IdleFn
    /\ M = DenseM
    /\ \E ctrl \in DenseEdgeLists : C = ConnectivityMatrix(ctrl, M.vertices)
    /\ model_matrix = FittedMatrix(M)
    /\ block_assignment =
          [v \in DOMAIN M.vertices |-> index(layers, M.vertices[v].int_layer)]
    /\ fit_i = Len(layers) - 1
    /\ fit_j = Len(layers) - 1
    /\ fit_calls = [p \in Blocks \X Blocks |-> 1]
    /\ dd2_args = run_DD2_block_args(M, model_matrix, block_assignment)
    /\ frames = ("deltas" :> build_edge_delta_dataframe(M))
          @@ ("deltas_ctrl" :> build_edge_delta_dataframe(C))
          @@ ("deltas_and_abs" :>
                concat_columns(build_edge_delta_dataframe(M), absolute_locations(M)))
          @@ ("deltas_and_abs_ctrl" :>
                concat_columns(build_edge_delta_dataframe(C), absolute_locations(C)))
          @@ ("copy" :> EmptyFrame)
    /\ call = NoCall
    /\ IdleSp

NextCounter == DisplayFunc1
SpecCounter == InitCounter /\ [][NextCounter]_vars

\* the sum of an absolute coordinate over rows of a table
RECURSIVE SumOver(_, _, _)
SumOver(data, col, rows) ==
    IF rows = {} THEN 0
    ELSE LET e == CHOOSE x \in rows : TRUE
         IN  data[e][col].num + SumOver(data, col, rows \ {e})
Pathway(data) ==
    {e \in DOMAIN data : /\ data[e]["source_layer"] \in call.src_l
                         /\ data[e]["target_layer"] \in call.tgt_l}
AsymColumn ==
    call.side \o "_" \o
        SelectSeq(AxisOrder, LAMBDA a : a \notin {call.ax_hor, call.ax_vert})[1]
InBin(b) == {e \in DOMAIN dgtz_deltas :
                <<dgtz_deltas[e][call.ax_vert], dgtz_deltas[e][call.ax_hor]>> = b}

\* C15: display_func1 shows for a bin the mean, over the connections of
\* the bin, of the chosen side's absolute coordinate minus the mean of that
\* coordinate over all connections the layer filter leaves, and NaN exactly
\* for the bins of fewer than 25 connections
C15_CenteredBinMean ==
    (pc = "shown" /\ call.func = "display_func1") =>
        LET data == frames[DataAbsNames[call.data_idx + 1]]
            n == Cardinality(Pathway(data))
            total == SumOver(data, AsymColumn, Pathway(data))
        IN  /\ DOMAIN dgtz_deltas = Pathway(data)
            /\ DOMAIN I = {<<dgtz_deltas[e][call.ax_vert], dgtz_deltas[e][call.ax_hor]>> :
                              e \in DOMAIN dgtz_deltas}
            /\ \A b \in DOMAIN I :
                  LET k == Cardinality(InBin(b))
                  IN  /\ I[b].nan <=> (k < CounterMinCount)
                      /\ ~I[b].nan =>
                            I[b].num * (n * k) =
                               I[b].den * (n * SumOver(data, AsymColumn, InBin(b))
                                           - k * total)
\* a bin of exactly 25 connections shows a mean other than 0 next to a bin
\* that shows NaN
C15_Witness ==
    /\ pc = "shown"
    /\ call.func = "display_func1"
    /\ \E b \in DOMAIN I :
          /\ Cardinality(InBin(b)) = CounterMinCount
          /\ ~I[b].nan
          /\ I[b].num # 0
    /\ \E b \in DOMAIN I : I[b].nan

\* ---------------------------------------------------------------------
\* The control objects of the three interactive widgets
\* (cells cfa12692, af3bb7a6, 85318bf5)
\* ---------------------------------------------------------------------
ControlNames ==
    {"wgt_res", "axis_hor", "axis_vert", "wgt_data", "wgt_src_l", "wgt_tgt_l",
     "wgt_rot", "wgt_side"}
\* the positions a control is moved between
Positions == {0, 1}

\* name = widgets.X(...): a new widget object, bound to the global name
RECURSIVE create(_, _)
create(h, names) ==
    IF names = <<>> THEN h
    ELSE create([wgt |-> [h.wgt EXCEPT ![Head(names)] = Len(h.objs) + 1],
                 objs |-> Append(h.objs, [value |-> 0, observers |-> {}])],
                Tail(names))
\* widgets.interactive(f, arg=control, ...): f observes the objects that the
\* names are bound to at the time of the call
interactive(h, f, names) ==
    [h EXCEPT !.objs =
        [o \in DOMAIN h.objs |->
            IF \E n \in names : h.wgt[n] = o
            THEN [h.objs[o] EXCEPT !.observers = @ \cup {f}]
            ELSE h.objs[o]]]

cell_cfa12692(h) ==
    interactive(create(h, <<"wgt_res", "axis_hor", "axis_vert", "wgt_data">>),
                "display_func_smpl",
                {"wgt_data", "wgt_res", "axis_hor", "axis_vert"})
cell_af3bb7a6(h) ==
    interactive(create(h, <<"wgt_src_l", "wgt_tgt_l", "wgt_rot", "wgt_data">>),
                "display_func_cmplx",
                {"wgt_data", "wgt_src_l", "wgt_tgt_l", "wgt_res", "axis_hor",
                 "axis_vert", "wgt_rot"})
Func1Controls ==
    {"wgt_res", "wgt_data", "wgt_src_l", "wgt_tgt_l", "axis_hor", "axis_vert",
     "wgt_side"}
cell_85318bf5SideOnly(h) ==
    interactive(create(h, <<"wgt_side">>), "display_func1", Func1Controls)
cell_85318bf5(h) ==
    interactive(create(h, <<"wgt_src_l", "wgt_tgt_l", "wgt_res", "axis_hor",
                            "axis_vert", "wgt_data", "wgt_side">>),
                "display_func1", Func1Controls)

NoChange == [obj |-> 0, funcs |-> {}]
InitControls ==
    /\ pc = "cell_cfa12692"
    /\ IdleFn
    /\ IdleNb
    /\ frames = <<>>
    /\ call = NoCall
    /\ nrn_id = 0
    /\ circ_edges = <<>>
    /\ synapses = <<>>
    /\ IdleNrn
    /\ wgt = [n \in ControlNames |-> 0]
    /\ objs = <<>>
    /\ invoked = NoChange

\* cell cfa12692 runs
RunCellSmpl ==
    /\ pc = "cell_cfa12692"
    /\ wgt' = cell_cfa12692([wgt |-> wgt, objs |-> objs]).wgt
    /\ objs' = cell_cfa12692([wgt |-> wgt, objs |-> objs]).objs
    /\ pc' = "cell_af3bb7a6"
    /\ UNCHANGED <<fnVars, nbVars, frames, call, nrn_id, circ_edges, synapses,
                   nrnVars, invoked>>
\* cell af3bb7a6 runs
RunCellCmplx ==
    /\ pc = "cell_af3bb7a6"
    /\ wgt' = cell_af3bb7a6([wgt |-> wgt, objs |-> objs]).wgt
    /\ objs' = cell_af3bb7a6([wgt |-> wgt, objs |-> objs]).objs
    /\ pc' = "cell_85318bf5"
    /\ UNCHANGED <<fnVars, nbVars, frames, call, nrn_id, circ_edges, synapses,
                   nrnVars, invoked>>
\* cell 85318bf5 runs
RunCell1 ==
    /\ pc = "cell_85318bf5"
    /\ wgt' = cell_85318bf5([wgt |-> wgt, objs |-> objs]).wgt
    /\ objs' = cell_85318bf5([wgt |-> wgt, objs |-> objs]).objs
    /\ pc' = "cells_run"
    /\ UNCHANGED <<fnVars, nbVars, frames, call, nrn_id, circ_edges, synapses,
                   nrnVars, invoked>>

\* the user moves a control that is displayed: the callbacks observing the
\* object are invoked
ChangeControl ==
    /\ \E o \in DOMAIN objs, v \in Positions :
        /\ v # objs[o].value
        /\ objs' = [objs EXCEPT ![o].value = v]
        /\ invoked' = [obj |-> o, funcs |-> objs[o].observers]
    /\ UNCHANGED <<pc, fnVars, nbVars, frames, call, nrn_id, circ_edges, synapses,
                   nrnVars, wgt>>

NextControls == RunCellSmpl \/ RunCellCmplx \/ RunCell1 \/ ChangeControl
SpecControls == InitControls /\ [][NextControls]_vars

\* C17: once the last cell has run, each control of the third widget is
\* observed by display_func1 alone, and a change of one of them invokes
\* display_func1 and nothing else
C17_OnlyDisplayFunc1 ==
    pc = "cells_run" =>
        /\ \A n \in Func1Controls : objs[wgt[n]].observers = {"display_func1"}
        /\ (\E n \in Func1Controls : wgt[n] = invoked.obj) =>
              invoked.funcs = {"display_func1"}
\* the resolution of the third widget was changed, while the resolution
\* slider of the two earlier widgets is one object shared by both
C17_Witness ==
    /\ pc = "cells_run"
    /\ invoked.obj = wgt["wgt_res"]
    /\ \E o \in DOMAIN objs :
          objs[o].observers = {"display_func_smpl", "display_func_cmplx"}

====
